---- MODULE Spec2Model ----
(***************************************************************************)
(* F5 iHealth MCP server (src/server.py): the token cache, the token       *)
(* manager get_auth_token, the HTTP gateway make_api_request, the          *)
(* formatter format_response and the tool surface.                         *)
(*                                                                         *)
(* Strings that the program builds by concatenation are modelled as        *)
(* sequences of fragments (Text): "a" + "b" is <<"a">> \o <<"b">>.         *)
(* Python dicts are ordered sequences of <<key, value>> pairs.             *)
(***************************************************************************)
EXTENDS Integers, Sequences, FiniteSets, TLC

(***************************************************************************)
(* Bounds of the model.                                                    *)
(***************************************************************************)
MaxTicks == 3      \* advances of the wall clock in one run

Threads == {"A", "B"}       \* host threads that can run a tool function
StartTimes == {600}         \* time.time() when the process starts
TickSteps == {30}           \* seconds the wall clock advances in one step

(***************************************************************************)
(* Program constants.                                                      *)
(***************************************************************************)
ExpiryMargin == 60          \* "- 60" of the freshness test
DefaultExpiresIn == 1800    \* token_data.get("expires_in", 1800)

None == "<None>"            \* Python's None where a string is expected

Truthy(s) == s # None /\ s # ""

(***************************************************************************)
(* Python values that reach format_response.                               *)
(*   [py |-> "dict", items |-> <<  <<key, value>>, ... >>]                 *)
(*   [py |-> "list", items |-> <<  <<"", value>>, ... >>]                  *)
(* a value is [t |-> "s" | "n", v |-> Text]: a string or a number.         *)
(***************************************************************************)
S(text) == [t |-> "s", v |-> text]
N(text) == [t |-> "n", v |-> text]
Dict(items) == [py |-> "dict", items |-> items]
List(items) == [py |-> "list", items |-> items]

HasKey(d, k) == \E i \in 1..Len(d.items) : d.items[i][1] = k

\* d[k] of a dict: the value of the (unique) entry with key k
Get(d, k) == d.items[CHOOSE i \in 1..Len(d.items) : d.items[i][1] = k][2]

\* d.get(k, default)
GetOr(d, k, default) == IF HasKey(d, k) THEN Get(d, k) ELSE default

\* str(value) inside an f-string
Str(val) == val.v


(***************************************************************************)
(* json.dumps(data, indent=2, default=str) of a dict of strings and        *)
(* numbers.  Escaping inside string values is not modelled (fragments are  *)
(* opaque).                                                                *)
(***************************************************************************)
JsonValue(val) == IF val.t = "s" THEN <<"\"">> \o val.v \o <<"\"">> ELSE val.v

RECURSIVE JsonItems(_)
JsonItems(items) ==
  IF items = <<>> THEN <<>>
  ELSE <<"\n  ", "\"", items[1][1], "\"", ": ">> \o JsonValue(items[1][2])
       \o (IF Len(items) > 1 THEN <<",">> ELSE <<>>)
       \o JsonItems(Tail(items))

JsonDumps(d) ==
  IF d.items = <<>> THEN <<"{}">>
  ELSE <<"{">> \o JsonItems(d.items) \o <<"\n", "}">>

\* repr() of a value, as str(list) prints its elements
Repr(val) == IF val.t = "s" THEN <<"'">> \o val.v \o <<"'">> ELSE val.v

RECURSIVE ReprItems(_)
ReprItems(items) ==
  IF items = <<>> THEN <<>>
  ELSE Repr(items[1][2])
       \o (IF Len(items) > 1 THEN <<", ">> ELSE <<>>)
       \o ReprItems(Tail(items))

\* str(data) of a value that is not a dict
PyStr(data) == <<"[">> \o ReprItems(data.items) \o <<"]">>

NoDetails == S(<<"No additional details">>)

\* format_response(data)
format_response(data) ==
  IF data.py = "dict"
  THEN IF HasKey(data, "error")
       THEN <<"Error: ">> \o Str(Get(data, "error")) \o <<"\nDetails: ">>
            \o Str(GetOr(data, "details", NoDetails))
       ELSE JsonDumps(data)
  ELSE PyStr(data)

(***************************************************************************)
(* Content types are sequences of tokens; "x in content_type" is the       *)
(* contiguous-subsequence test.                                            *)
(***************************************************************************)
Contains(sub, s) ==
  \E i \in 0..(Len(s) - Len(sub)) : SubSeq(s, i + 1, i + Len(sub)) = sub

CtJson == <<"application", "/", "json">>
CtVendorJson == <<"application", "/", "vnd.f5.ihealth.api", "+", "json">>
CtVendorXml == <<"application", "/", "vnd.f5.ihealth.api", "+", "xml">>
CtAppXml == <<"application", "/", "xml">>
CtTextXml == <<"text", "/", "xml">>
CtOctet == <<"application", "/", "octet-stream">>
CtCsv == <<"text", "/", "csv">>
CtHtml == <<"text", "/", "html">>
Charset == <<";", " ", "charset=utf-8">>

\* line 105: the two JSON media types
IsJsonType(ct) == Contains(CtJson, ct) \/ Contains(CtVendorJson, ct)

\* line 107: the XML media types the gateway recognises
IsXmlType(ct) == Contains(CtAppXml, ct) \/ Contains(CtTextXml, ct)

\* line 109
IsBinaryType(ct) == Contains(CtOctet, ct)

(***************************************************************************)
(* What the remote API may answer to one request.                          *)
(*   kind "transport": no response (connection failure, timeout)           *)
(*   kind "http": status, content type, body text, the body parsed as JSON *)
(*   (json.py is "invalid" when the body is no JSON), body length in bytes *)
(***************************************************************************)
NoJson == [py |-> "invalid", items |-> <<>>]
ObjA == Dict(<< <<"a", N(<<"1">>)>> >>)
ObjErr == Dict(<< <<"error", S(<<"disk full">>)>>, <<"id", N(<<"7">>)>> >>)
ArrIds == List(<< <<"", S(<<"qk1">>)>>, <<"", S(<<"qk2">>)>> >>)

Http(status, ct, text, json, size) ==
  [kind |-> "http", status |-> status, ct |-> ct, text |-> text,
   json |-> json, size |-> size, err |-> <<>>]

NoResp ==
  [kind |-> "none", status |-> 0, ct |-> <<>>, text |-> <<>>,
   json |-> NoJson, size |-> 0, err |-> <<>>]

TransportFailure ==
  [kind |-> "transport", status |-> 0, ct |-> <<>>, text |-> <<>>,
   json |-> NoJson, size |-> 0, err |-> <<"timed out">>]

ApiReplies ==
  { TransportFailure,
    Http(202, CtVendorJson, <<"{\"a\": 1}">>, ObjA, 8),
    Http(202, CtHtml, <<"queued">>, NoJson, 6),
    Http(404, CtHtml, <<"not found">>, NoJson, 9),
    Http(500, CtJson, <<"{\"error\": ...}">>, ObjErr, 30),
    Http(200, CtJson, <<"{\"a\": 1}">>, ObjA, 8),
    Http(200, CtVendorJson \o Charset, <<"{\"error\": ...}">>, ObjErr, 30),
    Http(201, CtJson, <<"[...]">>, ArrIds, 14),
    Http(200, CtJson, <<"<html>">>, NoJson, 6),
    Http(200, CtAppXml, <<"<a/>">>, NoJson, 4),
    Http(200, CtTextXml \o Charset, <<"<a/>">>, NoJson, 4),
    Http(200, CtVendorXml, <<"<a/>">>, NoJson, 4),
    Http(200, CtOctet, <<"bytes">>, NoJson, 1024),
    Http(200, CtCsv, <<"a,b">>, NoJson, 3),
    Http(200, <<>>, <<>>, NoJson, 0) }

\* the dict of lines 115 and 118
ErrorShape(msg, details) ==
  Dict(<< <<"error", S(<<"API request failed: ">> \o msg)>> >>
       \o (IF details = <<>> THEN <<>> ELSE << <<"details", S(details[1])>> >>))

PendingShape ==
  Dict(<< <<"status", S(<<"processing">>)>>,
          <<"message", S(<<"Request accepted, processing in progress. Retry in 10 seconds.">>)>> >>)

IntText(n) == <<ToString(n)>>

\* the classification with status 202 handled like any other 2xx status
ClassifyNo202(r) ==
  IF r.kind = "transport" THEN ErrorShape(r.err, <<>>)
  ELSE IF r.status \notin 200..299
       THEN ErrorShape(IntText(r.status), <<r.text>>)
  ELSE IF IsJsonType(r.ct)
       THEN IF r.json.py = "invalid"
            THEN ErrorShape(<<"Expecting value">>, <<>>)
            ELSE r.json
  ELSE IF IsXmlType(r.ct) THEN Dict(<< <<"xml_content", S(r.text)>> >>)
  ELSE IF IsBinaryType(r.ct)
       THEN Dict(<< <<"binary_size", N(IntText(r.size))>>,
                    <<"message", S(<<"Binary content retrieved successfully">>)>> >>)
  ELSE Dict(<< <<"content", S(r.text)>> >>)

\* make_api_request, lines 101-118: the value returned for a reply
Classify(r) ==
  IF r.kind = "transport" THEN ErrorShape(r.err, <<>>)
  ELSE IF r.status = 202 THEN PendingShape
  ELSE IF r.status \notin 200..299
       THEN ErrorShape(IntText(r.status), <<r.text>>)
  ELSE IF IsJsonType(r.ct)
       THEN IF r.json.py = "invalid"
            THEN ErrorShape(<<"Expecting value">>, <<>>)
            ELSE r.json
  ELSE IF IsXmlType(r.ct) THEN Dict(<< <<"xml_content", S(r.text)>> >>)
  ELSE IF IsBinaryType(r.ct)
       THEN Dict(<< <<"binary_size", N(IntText(r.size))>>,
                    <<"message", S(<<"Binary content retrieved successfully">>)>> >>)
  ELSE Dict(<< <<"content", S(r.text)>> >>)


(***************************************************************************)
(* The tool surface: each tool's HTTP method and the parameters it checks  *)
(* for non-emptiness, in the order the code checks them.                   *)
(***************************************************************************)
IdTools ==
  { "delete_qkview", "get_qkview_metadata", "update_qkview_metadata",
    "get_qkview_diagnostics", "get_diagnostics_hits", "get_diagnostics_misses",
    "list_qkview_files", "get_qkview_file", "download_original_qkview",
    "list_available_commands", "get_command_output", "get_bigip_info",
    "get_bigip_slot_info", "get_hardware_info", "get_software_info",
    "get_license_info", "search_qkview_logs" }

NoParamTools == { "list_qkviews", "delete_all_qkviews", "get_api_info" }

GatewayTools == IdTools \cup NoParamTools \cup { "upload_qkview" }

Tools == GatewayTools \cup { "validate_credentials" }

\* the name of the second required parameter, "" when there is none
SecondParam(tool) ==
  CASE tool = "get_qkview_file" -> "file_hash"
    [] tool = "get_command_output" -> "command_name"
    [] tool = "search_qkview_logs" -> "search_term"
    [] OTHER -> ""

\* the method each tool passes to make_api_request
ToolMethod(tool) ==
  CASE tool \in { "delete_qkview", "delete_all_qkviews" } -> "DELETE"
    [] tool = "upload_qkview" -> "POST"
    [] tool = "update_qkview_metadata" -> "PUT"
    [] tool = "validate_credentials" -> ""
    [] OTHER -> "GET"

\* the tools that check qkview_id first
RequiresQkviewId(tool) == tool \in IdTools

RequiredText(param) ==
  CASE param = "qkview_id" -> <<"Error: qkview_id parameter is required">>
    [] param = "file_path" -> <<"Error: file_path parameter is required">>
    [] param = "file_hash" -> <<"Error: file_hash parameter is required">>
    [] param = "command_name" -> <<"Error: command_name parameter is required">>
    [] param = "search_term" -> <<"Error: search_term parameter is required">>

(***************************************************************************)
(* Arguments of one invocation.  Of a string parameter only emptiness      *)
(* matters to the code; of file_path also what the file system holds.      *)
(*   second: the tool's second required parameter                          *)
(*   fields: whether any metadata field of update_qkview_metadata is set   *)
(*   file_path "": not given; the others name a file that does not exist,  *)
(*   one that exists and cannot be opened, and one that can                *)
(***************************************************************************)
Args(qkview_id, second, fields, file_path) ==
  [qkview_id |-> qkview_id, second |-> second, fields |-> fields,
   file_path |-> file_path]

NoArgs == Args("", "", FALSE, "")

\* the arguments tried for each tool: the parameters it does not have stay
\* at their defaults
ArgsOf(tool) ==
  IF tool = "upload_qkview"
  THEN { Args("", "", FALSE, f) : f \in {"", "/absent", "/unreadable", "/ok"} }
  ELSE IF tool = "update_qkview_metadata"
  THEN { Args(q, "", b, "") : q \in {"", "qk1"}, b \in BOOLEAN }
  ELSE IF SecondParam(tool) # ""
  THEN { Args(q, x, FALSE, "") : q \in {"", "qk1"}, x \in {"", "x"} }
  ELSE IF tool \in IdTools
  THEN { Args(q, "", FALSE, "") : q \in {"", "qk1"} }
  ELSE { NoArgs }

\* the parameter checks with the second parameter checked before qkview_id
EarlyReturnSecondFirst(tool, args) ==
  IF SecondParam(tool) # "" /\ args.second = ""
  THEN RequiredText(SecondParam(tool))
  ELSE IF RequiresQkviewId(tool) /\ args.qkview_id = ""
  THEN RequiredText("qkview_id")
  ELSE <<>>

\* the text a tool returns before calling the gateway, <<>> when it goes on
EarlyReturn(tool, args) ==
  IF tool = "upload_qkview"
  THEN CASE args.file_path = "" -> RequiredText("file_path")
         [] args.file_path = "/absent" -> <<"Error: File not found: ", args.file_path>>
         [] args.file_path = "/unreadable" ->
              <<"Error uploading QKView: ", "[Errno 13] Permission denied">>
         [] OTHER -> <<>>
  ELSE IF RequiresQkviewId(tool) /\ args.qkview_id = ""
       THEN RequiredText("qkview_id")
  ELSE IF SecondParam(tool) # "" /\ args.second = ""
       THEN RequiredText(SecondParam(tool))
  ELSE IF tool = "update_qkview_metadata" /\ ~args.fields
       THEN <<"Error: At least one metadata field must be provided to update">>
  ELSE <<>>

(***************************************************************************)
(* make_api_request called directly: the methods tried.                    *)
(***************************************************************************)
DirectMethods == { "GET", "get", "Post", "PATCH", "head" }

\* method.upper()
Upper(m) ==
  CASE m = "get" -> "GET"
    [] m = "Post" -> "POST"
    [] m = "head" -> "HEAD"
    [] OTHER -> m

SupportedMethods == { "GET", "POST", "PUT", "DELETE" }

(***************************************************************************)
(* What the token endpoint may answer to one exchange.                     *)
(*   outcome "http_error": raise_for_status raises (status)                *)
(*   outcome "network": the POST raises                                    *)
(*   outcome "not_json": response.json() raises                            *)
(*   outcome "json": token_data, with access_token a string, None or       *)
(*   Missing, and expires_in a number (k "num"), absent (k "absent") or a  *)
(*   value that cannot be added to a float (k "str", e.g. "1800")          *)
(***************************************************************************)
Missing == "<missing>"

Num(n) == [k |-> "num", n |-> n]
Absent == [k |-> "absent", n |-> 0]
NotANumber == [k |-> "str", n |-> 0]

TokenData(outcome, status, access_token, expires_in) ==
  [outcome |-> outcome, status |-> status, access_token |-> access_token,
   expires_in |-> expires_in]

NoTokenData == TokenData("none", 0, None, Absent)

TokenReplies ==
  { TokenData("http_error", 401, None, Absent),
    TokenData("network", 0, None, Absent),
    TokenData("not_json", 200, None, Absent) }
  \cup { TokenData("json", 200, a, e) :
           a \in {"tokA", "tokB"}, e \in {Num(30), Num(150), Absent, NotANumber} }
  \cup { TokenData("json", 200, a, Num(150)) : a \in {"", None, Missing} }


(***************************************************************************)
(* State.                                                                  *)
(***************************************************************************)
VARIABLES
  cache,       \* _token_cache: [token, expires_at]
  environ,     \* os.environ: [client_id, client_secret]
  now,         \* time.time()
  ticks,       \* clock advances so far
  parallel,    \* whether the host dispatches tool calls in parallel
  pc,          \* each thread's position in the code
  entry,       \* the function the host called on the thread
  args,        \* the tool's arguments
  method,      \* the method argument of make_api_request
  ct,          \* get_auth_token's current_time
  token_data,  \* get_auth_token's token_data
  tok,         \* the token get_auth_token returned to its caller
  resp,        \* the API's reply to the thread's request
  shape,       \* the value make_api_request returned
  result,      \* the text the tool function returned
  fault,       \* the exception that left the called function, <<>> if none
  auth,        \* how the thread's get_auth_token call ended
  trace,       \* the HTTP requests the invocation issued, in order
  cache0       \* the cache when the invocation called get_auth_token
               \* (when it started, before that)

vars ==
  << cache, environ, now, ticks, parallel, pc, entry, args, method, ct,
     token_data, tok, resp, shape, result, fault, auth, trace, cache0 >>

globals == << cache, environ, now, ticks, parallel >>

NoShape == [py |-> "none", items |-> <<>>]

EmptyCache == [token |-> None, expires_at |-> 0]

Environs == [client_id : {"", "id"}, client_secret : {"", "secret"}]

InitCommon ==
  /\ cache = EmptyCache
  /\ environ \in Environs
  /\ now \in StartTimes
  /\ ticks = 0
  /\ pc = [t \in Threads |-> "idle"]
  /\ entry = [t \in Threads |-> ""]
  /\ args = [t \in Threads |-> NoArgs]
  /\ method = [t \in Threads |-> ""]
  /\ ct = [t \in Threads |-> 0]
  /\ token_data = [t \in Threads |-> NoTokenData]
  /\ tok = [t \in Threads |-> None]
  /\ resp = [t \in Threads |-> NoResp]
  /\ shape = [t \in Threads |-> NoShape]
  /\ result = [t \in Threads |-> <<>>]
  /\ fault = [t \in Threads |-> <<>>]
  /\ auth = [t \in Threads |-> "none"]
  /\ trace = [t \in Threads |-> <<>>]
  /\ cache0 = [t \in Threads |-> EmptyCache]

\* the host runs one tool call at a time, on its main thread
Init == InitCommon /\ parallel = FALSE

\* the host dispatches tool calls on several threads at once
InitConc == InitCommon /\ parallel = TRUE

(***************************************************************************)
(* The host.                                                               *)
(***************************************************************************)
MainThread == "A"

MayStart(t) ==
  /\ pc[t] = "idle"
  /\ parallel \/ t = MainThread

\* the host calls a tool; the tool checks its parameters (and, for
\* upload_qkview, the file) and either returns or goes on to
\* get_auth_token (through make_api_request, line 78, or directly, line 410)
Invoke(t, tool, a) ==
  /\ MayStart(t)
  /\ entry' = [entry EXCEPT ![t] = tool]
  /\ args' = [args EXCEPT ![t] = a]
  /\ method' = [method EXCEPT ![t] = ToolMethod(tool)]
  /\ cache0' = [cache0 EXCEPT ![t] = cache]
  /\ IF EarlyReturn(tool, a) # <<>>
     THEN /\ result' = [result EXCEPT ![t] = EarlyReturn(tool, a)]
          /\ pc' = [pc EXCEPT ![t] = "done"]
     ELSE /\ pc' = [pc EXCEPT ![t] = "check_tok"]
          /\ UNCHANGED result
  /\ UNCHANGED << globals, ct, token_data, tok, resp, shape, fault, auth, trace >>

\* make_api_request(m, endpoint) called directly
CallGateway(t, m) ==
  /\ MayStart(t)
  /\ entry' = [entry EXCEPT ![t] = "make_api_request"]
  /\ method' = [method EXCEPT ![t] = m]
  /\ cache0' = [cache0 EXCEPT ![t] = cache]
  /\ pc' = [pc EXCEPT ![t] = "check_tok"]
  /\ UNCHANGED << globals, args, ct, token_data, tok, resp, shape, result,
                  fault, auth, trace >>

\* the host takes the result; the thread is free again
Return(t) ==
  /\ pc[t] = "done"
  /\ pc' = [pc EXCEPT ![t] = "idle"]
  /\ entry' = [entry EXCEPT ![t] = ""]
  /\ args' = [args EXCEPT ![t] = NoArgs]
  /\ method' = [method EXCEPT ![t] = ""]
  /\ ct' = [ct EXCEPT ![t] = 0]
  /\ token_data' = [token_data EXCEPT ![t] = NoTokenData]
  /\ tok' = [tok EXCEPT ![t] = None]
  /\ resp' = [resp EXCEPT ![t] = NoResp]
  /\ shape' = [shape EXCEPT ![t] = NoShape]
  /\ result' = [result EXCEPT ![t] = <<>>]
  /\ fault' = [fault EXCEPT ![t] = <<>>]
  /\ auth' = [auth EXCEPT ![t] = "none"]
  /\ trace' = [trace EXCEPT ![t] = <<>>]
  /\ cache0' = [cache0 EXCEPT ![t] = EmptyCache]
  /\ UNCHANGED globals

\* the wall clock advances
Tick ==
  /\ ticks < MaxTicks
  /\ \E d \in TickSteps : now' = now + d
  /\ ticks' = ticks + 1
  /\ UNCHANGED << cache, environ, parallel, pc, entry, args, method, ct,
                  token_data, tok, resp, shape, result, fault, auth, trace, cache0 >>

(***************************************************************************)
(* get_auth_token.                                                         *)
(***************************************************************************)
\* where the caller of get_auth_token goes on when it returns a token
AfterAuth(t) == IF entry[t] = "validate_credentials" THEN "probe" ELSE "send"

\* get_auth_token raises ValueError(msg): validate_credentials (line 414)
\* and upload_qkview (line 164) catch it, every other caller lets it pass
AuthRaises(t, msg) ==
  /\ auth' = [auth EXCEPT ![t] = "raised"]
  /\ pc' = [pc EXCEPT ![t] = "done"]
  /\ IF entry[t] = "validate_credentials"
     THEN /\ result' = [result EXCEPT ![t] = <<"Error: ">> \o msg]
          /\ UNCHANGED fault
     ELSE IF entry[t] = "upload_qkview"
     THEN /\ result' = [result EXCEPT ![t] = <<"Error uploading QKView: ">> \o msg]
          /\ UNCHANGED fault
     ELSE /\ fault' = [fault EXCEPT ![t] = msg]
          /\ UNCHANGED result

\* the freshness test with the safety margin forgotten
FreshNoMargin(current_time, expires_at) == current_time < expires_at

\* the freshness test with the margin doubled
FreshWideMargin(current_time, expires_at) ==
  current_time < expires_at - 2 * ExpiryMargin

\* the freshness test of line 47
Fresh(current_time, expires_at) == current_time < expires_at - ExpiryMargin

\* lines 46-47: read the clock, test _token_cache["token"]
CheckToken(t) ==
  /\ pc[t] = "check_tok"
  /\ ct' = [ct EXCEPT ![t] = now]
  /\ cache0' = [cache0 EXCEPT ![t] = cache]
  /\ pc' = [pc EXCEPT ![t] = IF Truthy(cache.token) THEN "check_exp" ELSE "creds"]
  /\ UNCHANGED << globals, entry, args, method, token_data, tok, resp, shape,
                  result, fault, auth, trace >>

\* line 47: test current_time against _token_cache["expires_at"]
CheckExpiry(t) ==
  /\ pc[t] = "check_exp"
  /\ pc' = [pc EXCEPT ![t] =
              IF Fresh(ct[t], cache.expires_at) THEN "hit" ELSE "creds"]
  /\ UNCHANGED << globals, entry, args, method, ct, token_data, tok, resp, shape,
                  result, fault, auth, trace, cache0 >>

\* line 48: return _token_cache["token"]
ReturnCached(t) ==
  /\ pc[t] = "hit"
  /\ tok' = [tok EXCEPT ![t] = cache.token]
  /\ auth' = [auth EXCEPT ![t] = "hit"]
  /\ pc' = [pc EXCEPT ![t] = AfterAuth(t)]
  /\ UNCHANGED << globals, entry, args, method, ct, token_data, resp, shape,
                  result, fault, trace, cache0 >>

ConfigMessage ==
  <<"F5_IHEALTH_CLIENT_ID and F5_IHEALTH_CLIENT_SECRET environment variables are required">>

\* get_credentials: whether both variables are set
HasCredentials == environ.client_id # "" /\ environ.client_secret # ""

\* line 49: get_credentials()
GetCredentials(t) ==
  /\ pc[t] = "creds"
  /\ IF HasCredentials
     THEN /\ pc' = [pc EXCEPT ![t] = "post"]
          /\ UNCHANGED << result, fault, auth >>
     ELSE AuthRaises(t, ConfigMessage)
  /\ UNCHANGED << globals, entry, args, method, ct, token_data, tok, resp, shape,
                  trace, cache0 >>

\* the message of the ValueError of lines 70 and 73
AuthFailure(reply) ==
  <<"Authentication failed: ">> \o
    CASE reply.outcome = "http_error" -> IntText(reply.status)
      [] reply.outcome = "network" -> <<"timed out">>
      [] reply.outcome = "not_json" -> <<"Expecting value">>
      [] reply.access_token = Missing -> <<"'access_token'">>
      [] OTHER -> <<"unsupported operand type(s) for +">>

\* lines 60-63: the token exchange and the parse of its reply
TokenExchange(t, reply) ==
  /\ pc[t] = "post"
  /\ trace' = [trace EXCEPT ![t] = Append(@, "token_exchange")]
  /\ IF reply.outcome = "json"
     THEN /\ token_data' = [token_data EXCEPT ![t] = reply]
          /\ pc' = [pc EXCEPT ![t] = "store_tok"]
          /\ UNCHANGED << result, fault, auth >>
     ELSE /\ AuthRaises(t, AuthFailure(reply))
          /\ UNCHANGED token_data
  /\ UNCHANGED << globals, entry, args, method, ct, tok, resp, shape, cache0 >>

\* line 64: _token_cache["token"] = token_data["access_token"]
StoreToken(t) ==
  /\ pc[t] = "store_tok"
  /\ IF token_data[t].access_token = Missing
     THEN /\ AuthRaises(t, AuthFailure(token_data[t]))
          /\ UNCHANGED cache
     ELSE /\ cache' = [cache EXCEPT !.token = token_data[t].access_token]
          /\ pc' = [pc EXCEPT ![t] = "store_exp"]
          /\ UNCHANGED << result, fault, auth >>
  /\ UNCHANGED << environ, now, ticks, parallel, entry, args, method, ct,
                  token_data, tok, resp, shape, trace, cache0 >>

\* token_data.get("expires_in", 1800)
ExpiresIn(td) ==
  IF td.expires_in.k = "absent" THEN DefaultExpiresIn ELSE td.expires_in.n

\* line 65: _token_cache["expires_at"] = current_time + expires_in
StoreExpiry(t) ==
  /\ pc[t] = "store_exp"
  /\ IF token_data[t].expires_in.k = "str"
     THEN /\ AuthRaises(t, AuthFailure(token_data[t]))
          /\ UNCHANGED cache
     ELSE /\ cache' = [cache EXCEPT !.expires_at = ct[t] + ExpiresIn(token_data[t])]
          /\ pc' = [pc EXCEPT ![t] = "ret_tok"]
          /\ UNCHANGED << result, fault, auth >>
  /\ UNCHANGED << environ, now, ticks, parallel, entry, args, method, ct,
                  token_data, tok, resp, shape, trace, cache0 >>

\* line 67: return _token_cache["token"]
ReturnFresh(t) ==
  /\ pc[t] = "ret_tok"
  /\ tok' = [tok EXCEPT ![t] = cache.token]
  /\ auth' = [auth EXCEPT ![t] = "fresh"]
  /\ pc' = [pc EXCEPT ![t] = AfterAuth(t)]
  /\ UNCHANGED << globals, entry, args, method, ct, token_data, resp, shape,
                  result, fault, trace, cache0 >>

(***************************************************************************)
(* validate_credentials and make_api_request after get_auth_token.  When   *)
(* they return, the frame of get_auth_token and the token are gone.        *)
(***************************************************************************)
Finish(t) ==
  /\ pc' = [pc EXCEPT ![t] = "done"]
  /\ ct' = [ct EXCEPT ![t] = 0]
  /\ token_data' = [token_data EXCEPT ![t] = NoTokenData]
  /\ tok' = [tok EXCEPT ![t] = None]
  /\ cache0' = [cache0 EXCEPT ![t] = EmptyCache]

\* validate_credentials, lines 411-413
Probe(t) ==
  /\ pc[t] = "probe"
  /\ result' = [result EXCEPT ![t] =
       IF Truthy(tok[t])
       THEN <<"Success: F5 iHealth API credentials are valid and authentication successful.">>
       ELSE <<"Error: Failed to obtain auth token">>]
  /\ Finish(t)
  /\ UNCHANGED << globals, entry, args, method, resp, shape, fault, auth, trace >>

\* the dict of line 118 for the ValueError of line 100
UnsupportedShape(m) == ErrorShape(<<"Unsupported HTTP method: ", m>>, <<>>)

\* what the caller of make_api_request makes of the value it returns
Rendered(t, value) ==
  IF entry[t] = "make_api_request" THEN <<>> ELSE format_response(value)

\* make_api_request lines 79-118 with a supported method: the request is
\* issued and answered and the reply classified; a tool formats the value
SendRequest(t, reply) ==
  /\ pc[t] = "send"
  /\ Upper(method[t]) \in SupportedMethods
  /\ trace' = [trace EXCEPT ![t] = Append(@, "api_request")]
  /\ resp' = [resp EXCEPT ![t] = reply]
  /\ shape' = [shape EXCEPT ![t] = Classify(reply)]
  /\ result' = [result EXCEPT ![t] = Rendered(t, Classify(reply))]
  /\ Finish(t)
  /\ UNCHANGED << globals, entry, args, method, fault, auth >>

\* make_api_request lines 79-100 and 116-118 with any other method: the
\* ValueError of line 100 is caught at line 116
RejectMethod(t) ==
  /\ pc[t] = "send"
  /\ Upper(method[t]) \notin SupportedMethods
  /\ shape' = [shape EXCEPT ![t] = UnsupportedShape(method[t])]
  /\ result' = [result EXCEPT ![t] = Rendered(t, UnsupportedShape(method[t]))]
  /\ Finish(t)
  /\ UNCHANGED << globals, entry, args, method, resp, fault, auth, trace >>

(***************************************************************************)
(* Specifications.                                                         *)
(***************************************************************************)
Next ==
  \/ \E t \in Threads, tool \in Tools : \E a \in ArgsOf(tool) : Invoke(t, tool, a)
  \/ \E t \in Threads, m \in DirectMethods : CallGateway(t, m)
  \/ \E t \in Threads : Return(t)
  \/ Tick
  \/ \E t \in Threads : CheckToken(t)
  \/ \E t \in Threads : CheckExpiry(t)
  \/ \E t \in Threads : ReturnCached(t)
  \/ \E t \in Threads : GetCredentials(t)
  \/ \E t \in Threads, reply \in TokenReplies : TokenExchange(t, reply)
  \/ \E t \in Threads : StoreToken(t)
  \/ \E t \in Threads : StoreExpiry(t)
  \/ \E t \in Threads : ReturnFresh(t)
  \/ \E t \in Threads : Probe(t)
  \/ \E t \in Threads, reply \in ApiReplies : SendRequest(t, reply)
  \/ \E t \in Threads : RejectMethod(t)

\* tool calls run one at a time
Spec == Init /\ [][Next]_vars

\* the answers of the token endpoint tried when calls run in parallel
ConcReplies ==
  { TokenData("json", 200, "tokA", Num(150)),
    TokenData("json", 200, "tokB", Num(30)),
    TokenData("http_error", 401, None, Absent) }

\* one call of validate_credentials on each thread, the calls interleaved
\* statement by statement
NextConc ==
  \/ \E t \in Threads : Invoke(t, "validate_credentials", NoArgs)
  \/ Tick
  \/ \E t \in Threads : CheckToken(t)
  \/ \E t \in Threads : CheckExpiry(t)
  \/ \E t \in Threads : ReturnCached(t)
  \/ \E t \in Threads : GetCredentials(t)
  \/ \E t \in Threads, reply \in ConcReplies : TokenExchange(t, reply)
  \/ \E t \in Threads : StoreToken(t)
  \/ \E t \in Threads : StoreExpiry(t)
  \/ \E t \in Threads : ReturnFresh(t)
  \/ \E t \in Threads : Probe(t)

\* get_auth_token calls run on parallel threads
SpecConc == InitConc /\ [][NextConc]_vars

(***************************************************************************)
(* Properties.                                                             *)
(***************************************************************************)
\* the number of token exchanges the thread's invocation has issued
Exchanges(t) == Cardinality({i \in 1..Len(trace[t]) : trace[t][i] = "token_exchange"})

\* the number of API requests the thread's invocation has issued
ApiRequests(t) == Cardinality({i \in 1..Len(trace[t]) : trace[t][i] = "api_request"})

\* the thread's get_auth_token call has ended and its frame is still known
AuthEnded(t) ==
  \/ pc[t] \in {"send", "probe"}
  \/ pc[t] = "done" /\ auth[t] = "raised"

\* the thread's request was answered with a 2xx status other than 202
AnsweredOk(t) ==
  /\ pc[t] = "done"
  /\ resp[t].kind = "http"
  /\ resp[t].status \in 200..299
  /\ resp[t].status # 202

\* C1: no tool raises an uncaught fault to the host: every invocation of a
\* tool ends by returning text, never by an exception leaving the tool
C1_NoToolRaises ==
  \A t \in Threads :
    (pc[t] = "done" /\ entry[t] \in Tools) => (fault[t] = <<>> /\ result[t] # <<>>)

\* C2 (as claimed): a call of get_auth_token made at a time now with
\* now >= expires_at - 60 is never served from the cache and performs
\* exactly one token exchange
C2_Original ==
  \A t \in Threads :
    (AuthEnded(t) /\ ct[t] >= cache0[t].expires_at - ExpiryMargin)
      => (auth[t] # "hit" /\ Exchanges(t) = 1)

\* C2 (amended): a call of get_auth_token made at a time now with
\* now >= expires_at - 60 is never served from the cache; it performs exactly
\* one token exchange when both credentials are set, and none (it raises)
\* when one is missing
C2_ForcedRefresh ==
  \A t \in Threads :
    (AuthEnded(t) /\ ct[t] >= cache0[t].expires_at - ExpiryMargin)
      => /\ auth[t] # "hit"
         /\ Exchanges(t) = IF HasCredentials THEN 1 ELSE 0

\* C2 witness: a call found a cached token 30 seconds from its expiry and
\* made one exchange
C2_Witness ==
  \E t \in Threads :
    /\ pc[t] \in {"send", "probe"}
    /\ Truthy(cache0[t].token)
    /\ cache0[t].expires_at = ct[t] + 30
    /\ auth[t] = "fresh"
    /\ Exchanges(t) = 1

\* C3 (as claimed): if expires_at - 60 is in the future at call time,
\* get_auth_token performs no token exchange and returns the cached token,
\* whatever the token endpoint returned before
C3_Original ==
  \A t \in Threads :
    (AuthEnded(t) /\ ct[t] < cache0[t].expires_at - ExpiryMargin)
      => (Exchanges(t) = 0 /\ auth[t] = "hit" /\ tok[t] = cache0[t].token)

\* C3 (amended): if the cache holds a non-empty token and expires_at - 60 is
\* in the future at call time, get_auth_token performs no token exchange and
\* returns the cached token
C3_Freshness ==
  \A t \in Threads :
    (AuthEnded(t) /\ Truthy(cache0[t].token)
       /\ ct[t] < cache0[t].expires_at - ExpiryMargin)
      => (Exchanges(t) = 0 /\ auth[t] = "hit" /\ tok[t] = cache0[t].token)

\* C3 witness: a later call, after the clock advanced, was served from the
\* cache without an exchange
C3_Witness ==
  \E t \in Threads :
    /\ pc[t] \in {"send", "probe"}
    /\ Truthy(cache0[t].token)
    /\ ct[t] > cache0[t].expires_at - 2 * ExpiryMargin
    /\ ct[t] < cache0[t].expires_at - ExpiryMargin
    /\ auth[t] = "hit"
    /\ tok[t] = cache0[t].token
    /\ trace[t] = <<>>

\* C4: a tool that requires qkview_id, called with qkview_id = "", returns
\* exactly "Error: qkview_id parameter is required", issues no HTTP request
\* and leaves the token cache as it was
C4_ShortCircuit ==
  \A t \in Threads :
    (pc[t] # "idle" /\ entry[t] \in IdTools /\ args[t].qkview_id = "")
      => /\ pc[t] = "done"
         /\ result[t] = <<"Error: qkview_id parameter is required">>
         /\ fault[t] = <<>>
         /\ trace[t] = <<>>
         /\ cache = cache0[t]

\* C4 witness: a tool with two required parameters was called with both
\* empty while the cache held a token, and returned the qkview_id text
C4_Witness ==
  \E t \in Threads :
    /\ pc[t] = "done"
    /\ entry[t] = "search_qkview_logs"
    /\ args[t].qkview_id = "" /\ args[t].second = ""
    /\ Truthy(cache.token)
    /\ result[t] = <<"Error: qkview_id parameter is required">>
    /\ trace[t] = <<>>

\* C5: a reply with status 202, whatever its body and content type, makes
\* make_api_request return the accepted-pending value with its fixed
\* message, not an error, and the invocation ends with that one API request
\* as its last HTTP request
C5_Accepted ==
  \A t \in Threads :
    (pc[t] = "done" /\ resp[t].kind = "http" /\ resp[t].status = 202)
      => /\ shape[t] = PendingShape
         /\ ~HasKey(shape[t], "error")
         /\ entry[t] \in Tools => result[t] = JsonDumps(PendingShape)
         /\ ApiRequests(t) = 1
         /\ trace[t][Len(trace[t])] = "api_request"
         /\ Exchanges(t) <= 1

\* C5 witness: a tool got a 202 with a JSON body after a token exchange
C5_Witness ==
  \E t \in Threads :
    /\ pc[t] = "done"
    /\ entry[t] = "get_qkview_diagnostics"
    /\ resp[t].status = 202
    /\ IsJsonType(resp[t].ct)
    /\ shape[t] = PendingShape
    /\ trace[t] = <<"token_exchange", "api_request">>

\* C6: a 2xx reply other than 202 whose content type is no JSON type and
\* contains "xml" is returned as the xml-text value
C6_XmlClassified ==
  \A t \in Threads :
    (AnsweredOk(t) /\ ~IsJsonType(resp[t].ct) /\ Contains(<<"xml">>, resp[t].ct))
      => shape[t] = Dict(<< <<"xml_content", S(resp[t].text)>> >>)

\* C7: a 2xx reply other than 202 with a JSON content type whose body is a
\* JSON object is rendered by the tool as the 2-space-indented JSON of that
\* object, whatever its keys
C7_JsonRendered ==
  \A t \in Threads :
    (AnsweredOk(t) /\ entry[t] \in Tools /\ IsJsonType(resp[t].ct)
       /\ resp[t].json.py = "dict")
      => result[t] = JsonDumps(resp[t].json)

\* C8: when the get_auth_token calls of all threads have returned, each after
\* a successful exchange, the cache holds the token and the expiry written
\* by one of them, not the token of one with the expiry of another
C8_NoTornPair ==
  (\A t \in Threads : pc[t] = "probe" /\ auth[t] = "fresh")
    => \E t \in Threads :
         cache = [token |-> token_data[t].access_token,
                  expires_at |-> ct[t] + ExpiresIn(token_data[t])]

\* C9: make_api_request called with a method other than GET, POST, PUT,
\* DELETE fails as an unsupported method without having issued any HTTP
\* request (no token exchange, no API request)
C9_RejectedBeforeNetwork ==
  \A t \in Threads :
    (pc[t] = "done" /\ entry[t] = "make_api_request"
       /\ Upper(method[t]) \notin SupportedMethods)
      => /\ trace[t] = <<>>
         /\ fault[t] # <<>> \/ shape[t] = UnsupportedShape(method[t])

\* C10: a call of get_auth_token that ends by raising leaves both fields of
\* the token cache as they were before the call
C10_FailedExchangeKeepsCache ==
  \A t \in Threads :
    (pc[t] = "done" /\ auth[t] = "raised") => cache = cache0[t]

====
